---------------------------- MODULE Spec2Model ----------------------------
(***************************************************************************)
(* Model of backend/main.py of the qualify tool: the startup load of the   *)
(* model artifact, the /predict handler (request validation, the trained   *)
(* model and heuristic classifiers, the label lookup) and wilson_interval, *)
(* computed in IEEE-754 binary64 arithmetic as Python floats compute it.   *)
(***************************************************************************)
EXTENDS Integers, Sequences, FiniteSets, TLC

(***************************************************************************)
(* Natural numbers of any size, as little-endian sequences of limbs below  *)
(* Base with no leading zero limb (zero is << >>).  They carry the 53-bit  *)
(* mantissas of Python floats and their exact products, quotients and      *)
(* square roots before rounding.                                           *)
(***************************************************************************)
Base == 2^15

RECURSIVE IntBitLen(_)
IntBitLen(n) == IF n = 0 THEN 0 ELSE 1 + IntBitLen(n \div 2)

\* bits in a limb
LimbBits == IntBitLen(Base) - 1

BRest(a) == IF a = << >> THEN << >> ELSE Tail(a)

BLow(a) == IF a = << >> THEN 0 ELSE Head(a)

RECURSIVE BNorm(_)
BNorm(a) ==
  IF a = << >> THEN << >>
  ELSE IF a[Len(a)] = 0 THEN BNorm(SubSeq(a, 1, Len(a) - 1)) ELSE a

RECURSIVE BFromInt(_)
BFromInt(n) == IF n = 0 THEN << >> ELSE <<n % Base>> \o BFromInt(n \div Base)

RECURSIVE BAddC(_, _, _)
BAddC(a, b, c) ==
  IF a = << >> /\ b = << >>
  THEN (IF c = 0 THEN << >> ELSE <<c>>)
  ELSE LET s == BLow(a) + BLow(b) + c
       IN  <<s % Base>> \o BAddC(BRest(a), BRest(b), s \div Base)

BAdd(a, b) == BAddC(a, b, 0)

\* a - b - c for a >= b + c, before the leading zero limbs are dropped
RECURSIVE BSubC(_, _, _)
BSubC(a, b, c) ==
  IF a = << >> THEN << >>
  ELSE LET d == Head(a) - BLow(b) - c
       IN  IF d < 0
           THEN <<d + Base>> \o BSubC(Tail(a), BRest(b), 1)
           ELSE <<d>> \o BSubC(Tail(a), BRest(b), 0)

BSub(a, b) == BNorm(BSubC(a, b, 0))

\* -1, 0, 1 as a < b, a = b, a > b
RECURSIVE BCmpFrom(_, _, _)
BCmpFrom(a, b, i) ==
  IF i = 0 THEN 0
  ELSE IF a[i] < b[i] THEN -1
  ELSE IF a[i] > b[i] THEN 1
  ELSE BCmpFrom(a, b, i - 1)

BCmp(a, b) ==
  IF Len(a) < Len(b) THEN -1
  ELSE IF Len(a) > Len(b) THEN 1
  ELSE BCmpFrom(a, b, Len(a))

RECURSIVE BMulSmallC(_, _, _)
BMulSmallC(a, k, c) ==
  IF a = << >>
  THEN (IF c = 0 THEN << >> ELSE <<c>>)
  ELSE LET s == Head(a) * k + c
       IN  <<s % Base>> \o BMulSmallC(Tail(a), k, s \div Base)

\* a * k for 0 <= k < Base
BMulSmall(a, k) == IF k = 0 THEN << >> ELSE BMulSmallC(a, k, 0)

RECURSIVE BMul(_, _)
BMul(a, b) ==
  IF a = << >> \/ b = << >> THEN << >>
  ELSE LET rest == BMul(a, Tail(b))
       IN  BAdd(BMulSmall(a, Head(b)),
                IF rest = << >> THEN << >> ELSE <<0>> \o rest)

\* floor(a / d) for 0 < d < Base, from the top limb down with remainder r
RECURSIVE BDivSmallFrom(_, _, _, _)
BDivSmallFrom(a, d, i, r) ==
  IF i = 0 THEN << >>
  ELSE LET x == r * Base + a[i]
       IN  BDivSmallFrom(a, d, i - 1, x % d) \o <<x \div d>>

BDivSmall(a, d) == BNorm(BDivSmallFrom(a, d, Len(a), 0))

BZeros(q) == [i \in 1..q |-> 0]

\* a * 2^k
BShl(a, k) ==
  IF a = << >> THEN << >>
  ELSE BZeros(k \div LimbBits) \o BMulSmall(a, 2^(k % LimbBits))

\* floor(a / 2^k)
BShr(a, k) ==
  LET q == k \div LimbBits
  IN  IF q >= Len(a) THEN << >>
      ELSE BDivSmall(SubSeq(a, q + 1, Len(a)), 2^(k % LimbBits))

BBitLen(a) ==
  IF a = << >> THEN 0 ELSE (Len(a) - 1) * LimbBits + IntBitLen(a[Len(a)])

BIsOdd(a) == a /= << >> /\ a[1] % 2 = 1

\* <<floor(r * 2^bits / b), the remainder>> for r < b: long division, one
\* quotient bit a step, the upper half of the bits before the lower half
RECURSIVE BDivBits(_, _, _)
BDivBits(r, b, bits) ==
  IF bits = 0 THEN << << >>, r>>
  ELSE IF bits = 1
  THEN LET r2 == BAdd(r, r)
       IN  IF BCmp(r2, b) >= 0 THEN << <<1>>, BSub(r2, b)>> ELSE << << >>, r2>>
  ELSE LET low == bits - (bits \div 2)
           hi  == BDivBits(r, b, bits \div 2)
           lo  == BDivBits(hi[2], b, low)
       IN  <<BAdd(BShl(hi[1], low), lo[1]), lo[2]>>

\* the integer square root of n and its remainder, by the binary digit
\* method: bit is a power of 4, res the root found so far
RECURSIVE BSqrtStep(_, _, _)
BSqrtStep(n, res, bit) ==
  IF bit = << >> THEN <<res, n>>
  ELSE LET t == BAdd(res, bit)
       IN  IF BCmp(n, t) >= 0
           THEN BSqrtStep(BSub(n, t), BAdd(BShr(res, 1), bit), BShr(bit, 2))
           ELSE BSqrtStep(n, BShr(res, 1), BShr(bit, 2))

BSqrtRem(n) ==
  IF n = << >> THEN << << >>, << >> >>
  ELSE BSqrtStep(n, << >>, BShl(<<1>>, 2 * ((BBitLen(n) - 1) \div 2)))

(***************************************************************************)
(* Python floats: IEEE-754 binary64, round to nearest, ties to even.  A    *)
(* float is [s, m, e] of value (-1)^s * m * 2^e with m of exactly MantBits *)
(* bits, or zero (m = << >>, e = 0).  The values of this program stay far  *)
(* from the subnormal and overflow ranges, which are not modelled.         *)
(***************************************************************************)
MantBits == 53

FZero == [s |-> 0, m |-> << >>, e |-> 0]

\* the float of sign s and value m * 2^e for m of MantBits bits, or of
\* MantBits + 1 bits after a carry out of the rounding (m is then 2^MantBits)
FPack(s, m, e) ==
  IF BBitLen(m) > MantBits
  THEN [s |-> s, m |-> BShr(m, 1), e |-> e + 1]
  ELSE [s |-> s, m |-> m, e |-> e]

\* round to nearest, ties to even: c compares the bits cut off with half a
\* unit of the last place of q
RoundsUp(c, q) == c > 0 \/ (c = 0 /\ BIsOdd(q))

\* n cut to its top MantBits bits q = floor(n / 2^k), rounded
FRoundCut(s, n, e, k, q) ==
  FPack(s,
        IF RoundsUp(BCmp(BSub(n, BShl(q, k)), BShl(<<1>>, k - 1)), q)
        THEN BAdd(q, <<1>>) ELSE q,
        e + k)

FRoundLen(s, n, e, len) ==
  IF len <= MantBits
  THEN [s |-> s, m |-> BShl(n, MantBits - len), e |-> e - (MantBits - len)]
  ELSE FRoundCut(s, n, e, len - MantBits, BShr(n, len - MantBits))

\* the float nearest to n * 2^e (n a natural number), with sign s
FRound(s, n, e) == IF n = << >> THEN FZero ELSE FRoundLen(s, n, e, BBitLen(n))

\* float(n) for an int 0 <= n < 2^31
FInt(n) == FRound(0, BFromInt(n), 0)

FNeg(a) == IF a.m = << >> THEN a ELSE [a EXCEPT !.s = 1 - a.s]

\* -1, 0, 1 as |a| < |b|, |a| = |b|, |a| > |b|
FCmpMag(a, b) ==
  IF a.m = << >> THEN (IF b.m = << >> THEN 0 ELSE -1)
  ELSE IF b.m = << >> THEN 1
  ELSE IF a.e < b.e THEN -1
  ELSE IF a.e > b.e THEN 1
  ELSE BCmp(a.m, b.m)

\* -1, 0, 1 as a < b, a = b, a > b
FCmp(a, b) ==
  IF a.s /= b.s THEN (IF a.s = 1 THEN -1 ELSE 1)
  ELSE IF a.s = 0 THEN FCmpMag(a, b) ELSE FCmpMag(b, a)

FLt(a, b) == FCmp(a, b) < 0

FLe(a, b) == FCmp(a, b) <= 0

\* x * 2^lo of sign sx plus y * 2^lo of sign sy; c compares x with y
FAddAligned(sx, x, sy, y, lo, c) ==
  IF sx = sy THEN FRound(sx, BAdd(x, y), lo)
  ELSE IF c = 0 THEN FZero
  ELSE IF c > 0 THEN FRound(sx, BSub(x, y), lo)
  ELSE FRound(sy, BSub(y, x), lo)

FAddAt(a, b, lo) ==
  FAddAligned(a.s, BShl(a.m, a.e - lo), b.s, BShl(b.m, b.e - lo), lo,
              BCmp(BShl(a.m, a.e - lo), BShl(b.m, b.e - lo)))

FAdd(a, b) ==
  IF a.m = << >> THEN b
  ELSE IF b.m = << >> THEN a
  ELSE FAddAt(a, b, IF a.e < b.e THEN a.e ELSE b.e)

FSub(a, b) == FAdd(a, FNeg(b))

FMul(a, b) ==
  IF a.m = << >> \/ b.m = << >> THEN FZero
  ELSE FRound((a.s + b.s) % 2, BMul(a.m, b.m), a.e + b.e)

\* twice the quotient or root q, with a last bit set when the remainder is
\* not zero: enough to decide the rounding
WithSticky(q, rem) == BAdd(BAdd(q, q), IF rem = << >> THEN << >> ELSE <<1>>)

\* qr = <<floor(r * 2^(MantBits + 2) / b.m), the remainder>> for the r left
\* of a.m after the quotient's first bit
FDivBits(a, b, first, qr) ==
  FRound((a.s + b.s) % 2,
         WithSticky(BAdd(IF first THEN BShl(<<1>>, MantBits + 2) ELSE << >>,
                         qr[1]),
                    qr[2]),
         a.e - b.e - (MantBits + 3))

FDivFirst(a, b, first) ==
  FDivBits(a, b, first,
           BDivBits(IF first THEN BSub(a.m, b.m) ELSE a.m, b.m, MantBits + 2))

\* a / b for b /= 0
FDiv(a, b) ==
  IF a.m = << >> THEN FZero ELSE FDivFirst(a, b, BCmp(a.m, b.m) >= 0)

\* sr = <<the integer square root of a.m * 2^k, the remainder>>
FSqrtBits(a, k, sr) == FRound(0, WithSticky(sr[1], sr[2]), ((a.e - k) \div 2) - 1)

FSqrtAt(a, k) == FSqrtBits(a, k, BSqrtRem(BShl(a.m, k)))

\* a ** 0.5 for a >= 0: the correctly rounded square root (k makes the
\* exponent even and the root long enough to round)
FSqrt(a) ==
  IF a.m = << >> THEN FZero
  ELSE FSqrtAt(a, IF a.e % 2 = 0 THEN MantBits + 5 ELSE MantBits + 4)

(***************************************************************************)
(* wilson_interval(p, n, z): the 95% Wilson score interval, statement by   *)
(* statement.  n is an int and z a float; an int operand of a float        *)
(* operation is converted to float first, 2*n and 4*n**2 are int           *)
(* arithmetic, and z**2 is the float product z*z.                          *)
(***************************************************************************)
wilson_denom(n, z) == FAdd(FInt(1), FDiv(FMul(z, z), FInt(n)))

\* wilson_center without its division by denom
wilson_center_undivided(p, n, z) == FAdd(p, FDiv(FMul(z, z), FInt(2 * n)))

wilson_center(p, n, z) ==
  FDiv(FAdd(p, FDiv(FMul(z, z), FInt(2 * n))), wilson_denom(n, z))

wilson_half(p, n, z) ==
  FDiv(FMul(z, FSqrt(FAdd(FDiv(FMul(p, FSub(FInt(1), p)), FInt(n)),
                          FDiv(FMul(z, z), FInt(4 * n * n))))),
       wilson_denom(n, z))

\* max(0.0, x) and min(1.0, x) of Python: the first argument unless the
\* second is strictly greater (smaller)
PyMax(a, b) == IF FLt(a, b) THEN b ELSE a

PyMin(a, b) == IF FLt(b, a) THEN b ELSE a

\* lcl = max(0.0, center - half); ucl = min(1.0, center + half)
wilson_limits(center, half) ==
  [lcl |-> PyMax(FZero, FSub(center, half)),
   ucl |-> PyMin(FInt(1), FAdd(center, half))]

wilson_interval(p, n, z) ==
  wilson_limits(wilson_center(p, n, z), wilson_half(p, n, z))

\* the defaults of wilson_interval's signature
DEFAULT_N == 100

DEFAULT_Z == FDiv(FInt(196), FInt(100))

(***************************************************************************)
(* Bounds of the model.                                                     *)
(***************************************************************************)
\* handler threads serving requests at once
NumWorkers == 2

\* how far outside {0,1} a field of a raw request body may lie
MaxRaw == 1

\* wilson_interval is applied to p = k/PDen for k in 0..PDen
PDen == 60

Workers == 1..NumWorkers

RawValues == (0 - MaxRaw)..(1 + MaxRaw)

(***************************************************************************)
(* The request model, the label list and the classifier.                   *)
(***************************************************************************)
\* PredictRequest's fifteen conint(ge=0, le=1) fields, in declaration order,
\* which is the order of vectorize
FIELDS ==
  << "is_process_simple", "can_specify_business_rules",
     "will_occasional_errors_be_tolerated", "will_error_be_propagated",
     "is_use_case_transactional_in_nature",
     "are_you_building_learning_system", "high_stakes_environment",
     "hyper_personalization", "unstructured_text_input",
     "is_input_data_multi_modal", "language_generation",
     "are_autonomous_decisions_required", "is_reasoning_required",
     "tool_integration", "dynamic_goals" >>

FieldNames == {FIELDS[i] : i \in 1..Len(FIELDS)}

\* field_ok without the upper limit (conint(ge=0) alone)
field_ok_no_upper(v) == v >= 0

\* conint(ge=0, le=1)
field_ok(v) == v >= 0 /\ v <= 1

\* pydantic's validation of the request body against PredictRequest
PredictRequest(req) == \A name \in FieldNames : field_ok(req.f[name])

LABELS == << "Agentic AI", "Classical ML", "Gen AI", "Business Automation" >>

\* LABELS[i] of Python: indices 0..len-1, negative ones from the end, any
\* other raises IndexError
LabelInRange(i) == i >= 0 - Len(LABELS) /\ i < Len(LABELS)

LabelAt(i) == IF i >= 0 THEN LABELS[i + 1] ELSE LABELS[i + Len(LABELS) + 1]

\* np.array([[...]], dtype=float): the fields as floats, in FIELDS order
\* (FloatOfField tabulates float(v) over the values a field can hold)
FloatOfField == [v \in RawValues |-> IF v < 0 THEN FNeg(FInt(0 - v)) ELSE FInt(v)]

vectorize(req) == [i \in 1..Len(FIELDS) |-> FloatOfField[req.f[FIELDS[i]]]]

\* agentic_score with dynamic_goals left out of the sum
agentic_score_three(req) ==
  req.f["are_autonomous_decisions_required"] + req.f["is_reasoning_required"]
    + req.f["tool_integration"]

agentic_score(req) ==
  req.f["are_autonomous_decisions_required"] + req.f["is_reasoning_required"]
    + req.f["tool_integration"] + req.f["dynamic_goals"]

\* heuristic_idx with the agentic test ahead of the language_generation test
heuristic_idx_agentic_first(req) ==
  IF agentic_score(req) >= 3 THEN 0
  ELSE IF req.f["language_generation"] /= 0 THEN 2
  ELSE IF req.f["can_specify_business_rules"] /= 0
          /\ req.f["are_you_building_learning_system"] = 0 THEN 3
  ELSE 1

\* heuristic_idx without its "not are_you_building_learning_system"
heuristic_idx_rules_only(req) ==
  IF req.f["language_generation"] /= 0 THEN 2
  ELSE IF agentic_score(req) >= 3 THEN 0
  ELSE IF req.f["can_specify_business_rules"] /= 0 THEN 3
  ELSE 1

\* the heuristic fallback's label index (a nonzero int is truthy)
heuristic_idx(req) ==
  IF req.f["language_generation"] /= 0 THEN 2
  ELSE IF agentic_score(req) >= 3 THEN 0
  ELSE IF req.f["can_specify_business_rules"] /= 0
          /\ req.f["are_you_building_learning_system"] = 0 THEN 3
  ELSE 1

\* the heuristic's p with the literal of the other branch, 0.75
P_HEURISTIC_as_no_proba == FDiv(FInt(75), FInt(100))

\* p = 0.70 and p = 0.75, the float literals
P_HEURISTIC == FDiv(FInt(70), FInt(100))

P_NO_PROBA == FDiv(FInt(75), FInt(100))

(***************************************************************************)
(* What MODEL_PATH can hold when the module is imported.  A loaded         *)
(* classifier is opaque to the program; here it is a fixed function of the *)
(* feature vector: the number of fields set picks a row of class           *)
(* probabilities (predict_proba) or a class label (predict).               *)
(***************************************************************************)
NoFile == [kind |-> "missing", classes |-> << >>, rows |-> << >>]

CorruptFile == [kind |-> "corrupt", classes |-> << >>, rows |-> << >>]

\* a file joblib loads into an object that is no classifier
ObjectFile == [kind |-> "object", classes |-> << >>, rows |-> << >>]

BareFile(classes) == [kind |-> "bare", classes |-> classes, rows |-> << >>]

ProbaFile(rows) == [kind |-> "proba", classes |-> << >>, rows |-> rows]

\* a row of class probabilities, from integer weights over their total
RECURSIVE SumSeq(_)
SumSeq(q) == IF q = << >> THEN 0 ELSE Head(q) + SumSeq(Tail(q))

ProbaRow(weights) ==
  [i \in 1..Len(weights) |-> FDiv(FInt(weights[i]), FInt(SumSeq(weights)))]

FourClassRows ==
  << ProbaRow(<<1, 0, 0, 0>>), ProbaRow(<<1, 7, 1, 1>>),
     ProbaRow(<<0, 0, 3, 1>>), ProbaRow(<<1, 1, 1, 2>>),
     ProbaRow(<<1, 1, 1, 1>>), ProbaRow(<<0, 0, 0, 1>>) >>

FiveClassRows ==
  << ProbaRow(<<1, 1, 1, 1, 1>>), ProbaRow(<<0, 1, 1, 1, 7>>),
     ProbaRow(<<0, 0, 1, 0, 0>>) >>

Files ==
  { NoFile, CorruptFile, ObjectFile,
    BareFile(<<0, 1, 2, 3>>), BareFile(<<1, 2, 3, 4>>),
    ProbaFile(FourClassRows), ProbaFile(FiveClassRows) }

\* the module global after "model = load_model()" found no file
None == [kind |-> "None", classes |-> << >>, rows |-> << >>]

Unset == [kind |-> "unset", classes |-> << >>, rows |-> << >>]

Ones(x) == Cardinality({i \in 1..Len(x) : x[i] /= FZero})

\* model.predict_proba(x)[0] and model.predict(x)[0]
predict_proba(m, x) == m.rows[(Ones(x) % Len(m.rows)) + 1]

model_predict(m, x) == m.classes[(Ones(x) % Len(m.classes)) + 1]

\* np.argmax: the 0-based index of the first maximum
RECURSIVE ArgmaxFrom(_, _, _)
ArgmaxFrom(row, i, best) ==
  IF i > Len(row) THEN best - 1
  ELSE ArgmaxFrom(row, i + 1, IF FLt(row[best], row[i]) THEN i ELSE best)

argmax(row) == ArgmaxFrom(row, 2, 1)

\* lines 91-115 of predict: the branch taken, the label index and p; an
\* object with neither predict_proba nor predict raises AttributeError
classify(m, req) ==
  LET x == vectorize(req)
  IN  IF m.kind /= "None"
      THEN IF m.kind = "proba"
           THEN LET proba == predict_proba(m, x)
                IN  [via |-> "proba", raised |-> FALSE,
                     pred_idx |-> argmax(proba), p |-> proba[argmax(proba) + 1]]
           ELSE IF m.kind = "bare"
           THEN [via |-> "predict", raised |-> FALSE,
                 pred_idx |-> model_predict(m, x), p |-> P_NO_PROBA]
           ELSE [via |-> "predict", raised |-> TRUE,
                 pred_idx |-> 0, p |-> FZero]
      ELSE [via |-> "heuristic", raised |-> FALSE,
            pred_idx |-> heuristic_idx(req), p |-> P_HEURISTIC]

(***************************************************************************)
(* The inputs drawn within the bounds.                                      *)
(***************************************************************************)
Request(name, ones) ==
  [use_case_name |-> name,
   f |-> [fld \in FieldNames |-> IF fld \in ones THEN 1 ELSE 0]]

Agentic ==
  {"are_autonomous_decisions_required", "is_reasoning_required",
   "tool_integration", "dynamic_goals"}

\* bodies that take every branch of the heuristic, with the fields the
\* heuristic ignores clear or set
SampleRequests ==
  { Request("x", {}), Request("y", {}), Request("x", FieldNames),
    Request("x", Agentic \cup {"language_generation"}),
    Request("x", Agentic \ {"tool_integration"}),
    Request("x", Agentic \cup {"can_specify_business_rules"}),
    Request("x", {"can_specify_business_rules"}),
    Request("x", {"can_specify_business_rules",
                  "are_you_building_learning_system"}),
    Request("x", FieldNames \ (Agentic \cup {"language_generation",
                                            "are_you_building_learning_system"})) }

Perturb(r, fld, v) == [r EXCEPT !.f[fld] = v]

\* the sample bodies and bodies with language_generation out of range
ServedRequests ==
  SampleRequests \cup
    {Perturb(Request("x", {}), "language_generation", v) :
       v \in {u \in RawValues : ~field_ok(u)}}

\* every body of fifteen 0/1 fields
ValidRequests ==
  {[use_case_name |-> "x", f |-> g] : g \in [FieldNames -> {0, 1}]}

\* a sample body with any one field set to any raw value
RawRequests ==
  {Perturb(r, fld, v) : r \in SampleRequests, fld \in FieldNames, v \in RawValues}

PGrid == {FDiv(FInt(k), FInt(PDen)) : k \in 0..PDen}

(***************************************************************************)
(* The program: the import of the module (load_model), then handler        *)
(* threads that each receive a body, validate it, run predict and send     *)
(* the outcome.                                                            *)
(***************************************************************************)
VARIABLES
  proc,      \* "import", "serving", or "crashed" (the import raised)
  artifact,  \* what MODEL_PATH holds
  model,     \* the module global model
  slots,     \* per handler thread: its request and how far it got
  call       \* a direct call of wilson_interval: its argument and return

vars == <<proc, artifact, model, slots, call>>

NoResponse ==
  [label |-> "", avg_confidence |-> FZero, ucl |-> FZero, lcl |-> FZero]

IdleSlot ==
  [st |-> "idle", req |-> Request("", {}), via |-> "", err |-> "",
   pred_idx |-> 0, p |-> FZero, resp |-> NoResponse]

NoCall == [p |-> FZero, returned |-> FALSE, lcl |-> FZero, ucl |-> FZero]

\* lines 47-53: os.path.exists, joblib.load (which raises on a file it cannot
\* unpickle, ending the import) and the assignment of the global
load_model ==
  /\ proc = "import"
  /\ IF artifact.kind = "missing"
     THEN model' = None /\ proc' = "serving"
     ELSE IF artifact.kind = "corrupt"
     THEN model' = model /\ proc' = "crashed"
     ELSE model' = artifact /\ proc' = "serving"
  /\ UNCHANGED <<artifact, slots, call>>

\* a request body, one of bodies, arrives at an idle handler thread
Receive(w, bodies) ==
  /\ proc = "serving"
  /\ slots[w].st = "idle"
  /\ \E r \in bodies :
       slots' = [slots EXCEPT ![w] = [IdleSlot EXCEPT !.st = "received", !.req = r]]
  /\ UNCHANGED <<proc, artifact, model, call>>

\* the framework validates the body against PredictRequest before it calls
\* predict; an invalid body is answered 422 and predict never runs
Validate(w) ==
  /\ slots[w].st = "received"
  /\ slots' = [slots EXCEPT ![w].st =
                 IF PredictRequest(slots[w].req) THEN "validated" ELSE "rejected"]
  /\ UNCHANGED <<proc, artifact, model, call>>

\* every p the classifier can return, and the grid of the direct calls
RowValues(rows) == {rows[i][j] : i \in 1..Len(rows), j \in 1..Len(rows[1])}

Confidences ==
  {P_HEURISTIC, P_NO_PROBA} \cup PGrid
    \cup UNION {RowValues(file.rows) : file \in {f \in Files : f.kind = "proba"}}

\* wilson_interval(p) with the default n and z, tabulated once over the
\* arguments it is called with
WilsonTable ==
  [p \in Confidences |-> wilson_interval(p, DEFAULT_N, DEFAULT_Z)]

wilson_default(p) == WilsonTable[p]

\* lines 117-118 and the exceptions of predict, on the validated request of
\* slot and the outcome c of classify: the interval, the label lookup, the
\* response; an exception ends the call (the framework answers 500)
Handled(slot, c) ==
  IF c.raised
  THEN [slot EXCEPT !.st = "error", !.err = "AttributeError", !.via = c.via]
  ELSE IF ~LabelInRange(c.pred_idx)
  THEN [slot EXCEPT !.st = "error", !.err = "IndexError", !.via = c.via,
                    !.pred_idx = c.pred_idx, !.p = c.p]
  ELSE [slot EXCEPT !.st = "done", !.via = c.via,
                    !.pred_idx = c.pred_idx, !.p = c.p,
                    !.resp = [label |-> LabelAt(c.pred_idx),
                              avg_confidence |-> c.p,
                              ucl |-> wilson_default(c.p).ucl,
                              lcl |-> wilson_default(c.p).lcl]]

\* predict giving up the loaded model once it has served a request
predict_dropping_model(w) ==
  /\ slots[w].st = "validated"
  /\ slots' = [slots EXCEPT ![w] = Handled(@, classify(model, @.req))]
  /\ model' = None
  /\ UNCHANGED <<proc, artifact, call>>

predict(w) ==
  /\ slots[w].st = "validated"
  /\ slots' = [slots EXCEPT ![w] = Handled(@, classify(model, @.req))]
  /\ UNCHANGED <<proc, artifact, model, call>>

\* the outcome (response, 422 or 500) is sent; the thread is free again
Send(w) ==
  /\ slots[w].st \in {"rejected", "done", "error"}
  /\ slots' = [slots EXCEPT ![w] = IdleSlot]
  /\ UNCHANGED <<proc, artifact, model, call>>

\* a direct call wilson_interval(p)
wilson_call ==
  /\ ~call.returned
  /\ LET r == wilson_default(call.p)
     IN  call' = [p |-> call.p, returned |-> TRUE, lcl |-> r.lcl, ucl |-> r.ucl]
  /\ UNCHANGED <<proc, artifact, model, slots>>

\* the process from its import on, with any file at MODEL_PATH
Init ==
  /\ proc = "import"
  /\ artifact \in Files
  /\ model = Unset
  /\ slots = [w \in Workers |-> IdleSlot]
  /\ call = NoCall

Next ==
  \/ load_model
  \/ \E w \in Workers :
       \/ Receive(w, ServedRequests)
       \/ Validate(w)
       \/ predict(w)
       \/ Send(w)

Spec == Init /\ [][Next]_vars

\* no file at MODEL_PATH, one handler thread, every valid body
InitHeuristic == Init /\ artifact = NoFile

NextHeuristic ==
  \/ load_model
  \/ Receive(1, ValidRequests)
  \/ Validate(1)
  \/ predict(1)
  \/ Send(1)

SpecHeuristic == InitHeuristic /\ [][NextHeuristic]_vars

\* any file, one handler thread, raw bodies
NextBoundary ==
  \/ load_model
  \/ Receive(1, RawRequests)
  \/ Validate(1)
  \/ predict(1)
  \/ Send(1)

SpecBoundary == Init /\ [][NextBoundary]_vars

\* wilson_interval alone, on the grid of p
InitWilson ==
  /\ proc = "import"
  /\ artifact = NoFile
  /\ model = Unset
  /\ slots = [w \in Workers |-> IdleSlot]
  /\ call \in {[NoCall EXCEPT !.p = p] : p \in PGrid}

NextWilson == wilson_call

SpecWilson == InitWilson /\ [][NextWilson]_vars

(***************************************************************************)
(* The properties.                                                         *)
(***************************************************************************)
Fallback == proc = "serving" /\ model = None

\* a request that predict has answered or failed on
Answered(w) == slots[w].st \in {"done", "error"}

Field(w, fld) == slots[w].req.f[fld]

\* how many of the four agentic fields of the request are 1
AgenticCount(w) == Cardinality({fld \in Agentic : Field(w, fld) = 1})

Float070 == FDiv(FInt(7), FInt(10))

Float075 == FDiv(FInt(3), FInt(4))

FloatOne == FInt(1)

\* C1: in fallback mode a valid request with language_generation = 1 is
\* answered "Gen AI" (index 2), whatever its other fourteen fields are.
C1_LanguageGenerationIsGenAI ==
  \A w \in Workers :
    (Fallback /\ Answered(w) /\ Field(w, "language_generation") = 1)
      => /\ slots[w].st = "done"
         /\ slots[w].pred_idx = 2
         /\ slots[w].resp.label = "Gen AI"

\* C1's case: language_generation = 1 together with all four agentic fields
\* and the business-rule pattern, answered "Gen AI"
C1_Witness ==
  \E w \in Workers :
    /\ Fallback /\ slots[w].st = "done"
    /\ Field(w, "language_generation") = 1
    /\ AgenticCount(w) = 4
    /\ Field(w, "can_specify_business_rules") = 1
    /\ Field(w, "are_you_building_learning_system") = 0
    /\ slots[w].resp.label = "Gen AI"

\* C2: in fallback mode with language_generation = 0, three or four agentic
\* fields set give "Agentic AI" (index 0) whatever the business-rule fields
\* are, and two or fewer give "Classical ML" or "Business Automation".
C2_AgenticThreshold ==
  \A w \in Workers :
    (Fallback /\ Answered(w) /\ Field(w, "language_generation") = 0)
      => /\ slots[w].st = "done"
         /\ AgenticCount(w) >= 3
              => slots[w].pred_idx = 0 /\ slots[w].resp.label = "Agentic AI"
         /\ AgenticCount(w) <= 2
              => slots[w].resp.label \in {"Classical ML", "Business Automation"}

\* C2's case: exactly three agentic fields (dynamic_goals among them) with
\* the business-rule pattern, answered "Agentic AI"
C2_Witness ==
  \E w \in Workers :
    /\ Fallback /\ slots[w].st = "done"
    /\ Field(w, "language_generation") = 0
    /\ AgenticCount(w) = 3 /\ Field(w, "dynamic_goals") = 1
    /\ Field(w, "can_specify_business_rules") = 1
    /\ Field(w, "are_you_building_learning_system") = 0
    /\ slots[w].resp.label = "Agentic AI"

\* C3: in fallback mode with language_generation = 0 and fewer than three
\* agentic fields set, the answer is "Business Automation" (index 3) exactly
\* when can_specify_business_rules = 1 and
\* are_you_building_learning_system = 0, and "Classical ML" (index 1)
\* otherwise; so the all-zero request gives "Classical ML".
C3_BusinessAutomationBranch ==
  \A w \in Workers :
    (Fallback /\ Answered(w) /\ Field(w, "language_generation") = 0
       /\ AgenticCount(w) < 3)
      => /\ slots[w].st = "done"
         /\ IF Field(w, "can_specify_business_rules") = 1
               /\ Field(w, "are_you_building_learning_system") = 0
            THEN slots[w].pred_idx = 3
                 /\ slots[w].resp.label = "Business Automation"
            ELSE slots[w].pred_idx = 1 /\ slots[w].resp.label = "Classical ML"

\* C3's case: the business-rule field set with the learning-system field
\* also set and two agentic fields, answered "Classical ML"
C3_Witness ==
  \E w \in Workers :
    /\ Fallback /\ slots[w].st = "done"
    /\ Field(w, "language_generation") = 0
    /\ AgenticCount(w) = 2
    /\ Field(w, "can_specify_business_rules") = 1
    /\ Field(w, "are_you_building_learning_system") = 1
    /\ slots[w].resp.label = "Classical ML"

\* C4: when loading the artifact fails (no file, a corrupt file, a file of
\* the wrong format) the import completes, the process serves in heuristic
\* mode as if the file were absent, and no request fails.
C4_LoadFailureFallsBack ==
  artifact.kind \in {"missing", "corrupt", "object"}
    => /\ proc /= "crashed"
       /\ proc = "serving" => model = None
       /\ \A w \in Workers : slots[w].st /= "error"

\* C5: every predict call on a validated request, in every strategy,
\* produces a label index in 0..3 and answers with the label at that place
\* of LABELS; the lookup of the label never fails.
C5_LabelIndexInRange ==
  \A w \in Workers :
    (slots[w].st = "done" \/ (slots[w].st = "error" /\ slots[w].err = "IndexError"))
      => /\ slots[w].st = "done"
         /\ slots[w].pred_idx \in 0..3
         /\ slots[w].resp.label = LABELS[slots[w].pred_idx + 1]

\* C6: a confidence not taken from a probability output is fixed by the
\* strategy alone: every heuristic response has avg_confidence 0.70 and the
\* interval of 0.70, whichever branch chose the label, and every response of
\* a model with predict only has avg_confidence 0.75 and the label that
\* predict returned.
C6_FixedConfidence ==
  \A w \in Workers :
    slots[w].st = "done" =>
      /\ slots[w].via = "heuristic"
           => /\ slots[w].resp.avg_confidence = Float070
              /\ \A v \in Workers :
                   (slots[v].st = "done" /\ slots[v].via = "heuristic")
                     => /\ slots[v].resp.lcl = slots[w].resp.lcl
                        /\ slots[v].resp.ucl = slots[w].resp.ucl
      /\ slots[w].via = "predict"
           => /\ slots[w].resp.avg_confidence = Float075
              /\ slots[w].resp.label
                   = LabelAt(model_predict(model, vectorize(slots[w].req)))

\* C6's case: two heuristic responses with labels of different branches in
\* flight together, carrying the same confidence
C6_Witness ==
  \E w, v \in Workers :
    /\ slots[w].st = "done" /\ slots[w].via = "heuristic"
    /\ slots[v].st = "done" /\ slots[v].via = "heuristic"
    /\ slots[w].resp.label = "Gen AI"
    /\ slots[v].resp.label = "Business Automation"
    /\ slots[w].resp.avg_confidence = Float070

\* C7: for p in [0,1] and the default n and z, wilson_interval returns
\* 0.0 <= lcl <= ucl <= 1.0.
C7_IntervalBounds ==
  call.returned
    => /\ FLe(FZero, call.lcl)
       /\ FLe(call.lcl, call.ucl)
       /\ FLe(call.ucl, FloatOne)

\* C7's case: the call with p = 1.0 has returned, with lcl below ucl
C7_Witness == call.returned /\ call.p = FloatOne /\ FLt(call.lcl, call.ucl)

\* C8: every response has lcl <= avg_confidence <= ucl, for every confidence
\* the classifier can produce, a maximum class probability of 1.0 included.
C8_ConfidenceWithinInterval ==
  \A w \in Workers :
    slots[w].st = "done"
      => /\ FLe(slots[w].resp.lcl, slots[w].resp.avg_confidence)
         /\ FLe(slots[w].resp.avg_confidence, slots[w].resp.ucl)

\* the strategy that serves requests under the global model m
StrategyOf(m) ==
  IF m = None THEN "heuristic" ELSE IF m.kind = "proba" THEN "proba" ELSE "predict"

\* what the import leaves in the global model when it completes
LoadedAtStartup == IF artifact.kind = "missing" THEN None ELSE artifact

\* C9: the strategy is chosen at startup and never changes: once the process
\* serves, no step writes the global model, which is what the import loaded;
\* every request is served by the strategy of that model; and handler
\* threads holding requests of the same fields hold the same outcome,
\* whatever the other threads hold.
C9_StrategyFixedAtStartup ==
  /\ [][proc = "serving" => model' = model]_vars
  /\ [](proc = "serving" => model = LoadedAtStartup)
  /\ [](\A w \in Workers :
          Answered(w)
            => /\ slots[w].via = StrategyOf(model)
               /\ \A v \in Workers :
                    (Answered(v) /\ slots[v].req.f = slots[w].req.f)
                      => /\ slots[v].st = slots[w].st
                         /\ slots[v].resp = slots[w].resp)

\* C9's case: a loaded model with probability output has answered two
\* different requests, held by two handler threads at once, differently
C9_Witness ==
  \E w, v \in Workers :
    /\ model = artifact /\ model.kind = "proba"
    /\ slots[w].st = "done" /\ slots[v].st = "done"
    /\ slots[w].req /= slots[v].req
    /\ slots[w].resp.label /= slots[v].resp.label

\* C10: a request with a field outside {0,1} is rejected before predict
\* runs: nothing is classified, no interval is computed and no response is
\* built for it; only requests with all fifteen fields in {0,1} reach
\* predict.
C10_InvalidRejectedAtBoundary ==
  \A w \in Workers :
    /\ (slots[w].st \notin {"idle", "received"}
          /\ \E fld \in FieldNames : Field(w, fld) \notin {0, 1})
         => /\ slots[w].st = "rejected"
            /\ slots[w].via = ""
            /\ slots[w].resp = NoResponse
    /\ slots[w].st \in {"validated", "done", "error"}
         => \A fld \in FieldNames : Field(w, fld) \in {0, 1}

\* C10's case: a request whose only bad field is dynamic_goals = 2, next to
\* a set language_generation, has been rejected
C10_Witness ==
  \E w \in Workers :
    /\ slots[w].st = "rejected"
    /\ Field(w, "dynamic_goals") = 2
    /\ Field(w, "language_generation") = 1
    /\ \A fld \in FieldNames \ {"dynamic_goals"} : Field(w, fld) \in {0, 1}

=============================================================================
